---------------------------- MODULE Spec2Model ----------------------------
(***************************************************************************)
(* Model of src/src/index.ts (second revision, lines 250-509): the Calcium *)
(* feed import.  uploadData calls ImportICS, which optionally fetches the  *)
(* feed, reads the feed file, parses it into vevent components, maps every *)
(* component through extraction, validation, date resolution, cutoff and   *)
(* category lookup, writes the export file and returns the accepted list;  *)
(* uploadData then maps the list to transport records and posts them.      *)
(*                                                                         *)
(* JavaScript strings that the code inspects character by character (uid,  *)
(* summary, description, formatted dates, the cutoff) are sequences of     *)
(* one-character strings.  A Dayjs value is the number of days from        *)
(* 1970-01-01 to its (midnight) calendar date.                             *)
(***************************************************************************)
EXTENDS Integers, Sequences, FiniteSets, TLC

\* Longest component list (events) a run parses out of the feed.
MaxEvents == 3

----------------------------------------------------------------------------
\* JavaScript values

Undefined == [t |-> "undefined"]
Null == [t |-> "null"]
Str(s) == [t |-> "string", v |-> s]
IsStr(x) == x.t = "string"

Digits == {"0", "1", "2", "3", "4", "5", "6", "7", "8", "9"}
Letters ==
  {"a", "b", "c", "d", "e", "f", "g", "h", "i", "j", "k", "l", "m",
   "n", "o", "p", "q", "r", "s", "t", "u", "v", "w", "x", "y", "z",
   "A", "B", "C", "D", "E", "F", "G", "H", "I", "J", "K", "L", "M",
   "N", "O", "P", "Q", "R", "S", "T", "U", "V", "W", "X", "Y", "Z"}
\* the regular expression class \w
WordChars == Letters \cup Digits \cup {"_"}
\* the characters the regular expression atom . does not match
LineTerminators == {"\n", "\r"}

\* U+FFFD, the character fixApostrophe looks for, and U+2019, its replacement
ReplacementChar == "U+FFFD"
RightQuote == "U+2019"

----------------------------------------------------------------------------
\* extractCalciumId: /^\d{10}-(\w+)-\d{6}@afosterri.org$/

PrefixDigits == 10
SuffixDigits == 6
DomainHead == <<"@", "a", "f", "o", "s", "t", "e", "r", "r", "i">>
DomainTail == <<"o", "r", "g">>

RECURSIVE WordRun(_, _)
\* length of the greedy \w+ run of s that starts at position from
WordRun(s, from) ==
  IF from > Len(s) \/ s[from] \notin WordChars THEN 0
  ELSE 1 + WordRun(s, from + 1)

\* Where the atom between "afosterri" and "org" falls in id when the rest of
\* ^\d{10}-(\w+)-\d{6}@afosterri.org$ matches around it, else 0.  \w excludes
\* "-", so the greedy run is the only split.
DotPosition(id) ==
  LET n == Len(id)
      t == WordRun(id, PrefixDigits + 2)
      tokEnd == PrefixDigits + 1 + t
      sufEnd == tokEnd + 1 + SuffixDigits
      domEnd == sufEnd + Len(DomainHead)
  IN  IF /\ n = domEnd + 1 + Len(DomainTail)
         /\ t >= 1
         /\ \A k \in 1..PrefixDigits : id[k] \in Digits
         /\ id[PrefixDigits + 1] = "-"
         /\ id[tokEnd + 1] = "-"
         /\ \A k \in (tokEnd + 2)..sufEnd : id[k] \in Digits
         /\ SubSeq(id, sufEnd + 1, domEnd) = DomainHead
         /\ SubSeq(id, domEnd + 2, n) = DomainTail
      THEN domEnd + 1
      ELSE 0

\* id.match(re): the unescaped . of the pattern takes any character but a
\* line terminator
reMatches(id) == DotPosition(id) > 0 /\ id[DotPosition(id)] \notin LineTerminators

\* id.replace(re, '$1') on a matching id: the captured token
reGroup1(id) == SubSeq(id, PrefixDigits + 2, PrefixDigits + 1 + WordRun(id, PrefixDigits + 2))

\* extractCalciumId: the token, or the thrown Error('bad id')
extractCalciumId(id) ==
  IF ~reMatches(id) THEN [threw |-> TRUE, value |-> <<>>]
  ELSE [threw |-> FALSE, value |-> reGroup1(id)]

\* fixApostrophe: undefined for an absent or empty string, else every
\* U+FFFD replaced by U+2019
fixApostrophe(str) ==
  IF ~IsStr(str) \/ Len(str.v) = 0 THEN Undefined
  ELSE Str([k \in 1..Len(str.v) |->
              IF str.v[k] = ReplacementChar THEN RightQuote ELSE str.v[k]])

----------------------------------------------------------------------------
\* Dates

\* Days from 1970-01-01 to day d of month m (1..12) of year y, counted as the
\* Date constructor counts them: a day outside the month runs on linearly.
DaysFromCivil(y, m, d) ==
  LET yy == IF m <= 2 THEN y - 1 ELSE y
      era == yy \div 400
      yoe == yy - era * 400
      mp == (m + 9) % 12
      doy == (153 * mp + 2) \div 5 + d - 1
      doe == yoe * 365 + yoe \div 4 - yoe \div 100 + doy
  IN  era * 146097 + doe - 719468

\* the calendar date of a day number
CivilFromDays(z) ==
  LET zz == z + 719468
      era == zz \div 146097
      doe == zz - era * 146097
      yoe == (doe - doe \div 1460 + doe \div 36524 - doe \div 146096) \div 365
      doy == doe - (365 * yoe + yoe \div 4 - yoe \div 100)
      mp == (5 * doy + 2) \div 153
      d == doy - (153 * mp + 2) \div 5 + 1
      m == IF mp < 10 THEN mp + 3 ELSE mp - 9
  IN  [year |-> yoe + era * 400 + (IF m <= 2 THEN 1 ELSE 0), month |-> m, day |-> d]

\* new Date(y, M, d): the month index M (0-based) carries into the year
NewDate(y, M, d) == DaysFromCivil(y + (M \div 12), (M % 12) + 1, d)

\* parseDate: dayjs({year, month: obj.month - 1, day}) with objectSupport,
\* which takes day || 1 and, a year being given, month >= 0 ? month : 0
parseDate(obj) ==
  LET M == IF obj.month - 1 >= 0 THEN obj.month - 1 ELSE 0
      d == IF obj.day = 0 THEN 1 ELSE obj.day
  IN  NewDate(obj.year, M, d)

DigitChar(n) == <<"0", "1", "2", "3", "4", "5", "6", "7", "8", "9">>[n + 1]
DigitVal(c) == CHOOSE n \in 0..9 : DigitChar(n) = c

RECURSIVE PadNum(_, _)
\* n in decimal, zero-padded to w digits
PadNum(n, w) ==
  IF w = 0 THEN <<>> ELSE Append(PadNum(n \div 10, w - 1), DigitChar(n % 10))

\* formatDate: obj.format('YYYY-MM-DD')
formatDate(obj) ==
  LET c == CivilFromDays(obj)
  IN  PadNum(c.year, 4) \o <<"-">> \o PadNum(c.month, 2) \o <<"-">> \o PadNum(c.day, 2)

RECURSIVE NumVal(_)
NumVal(s) ==
  IF Len(s) = 0 THEN 0
  ELSE 10 * NumVal(SubSeq(s, 1, Len(s) - 1)) + DigitVal(s[Len(s)])

\* dayjs(d) of a 'YYYY-MM-DD' string: new Date(year, month - 1, day)
dayjsOfString(d) ==
  NewDate(NumVal(SubSeq(d, 1, 4)), NumVal(SubSeq(d, 6, 7)) - 1, NumVal(SubSeq(d, 9, 10)))

\* a.isBefore(b), a.isAfter(b)
isBefore(a, b) == a < b
isAfter(a, b) == a > b

----------------------------------------------------------------------------
\* cabinMap and the zod shape

cabinMap ==
  [Foster |-> Str("45617389-7678-42bf-bfb4-83304a389dc7"),
   House |-> Str("430a512f-6a35-4ed0-9e4b-4efa7a90a0e7"),
   Ide |-> Str("d0b162c0-8a64-4946-b148-a7362c296709"),
   Kendrew |-> Str("2bb998a2-7c9a-4367-bcdb-b8e8a144b8a7"),
   Meeting |-> Null,
   Mosher |-> Str("649d65b6-9a50-491f-b0f2-8a0e22ee6275")]

\* Object.keys(cabinMap)
cabins == DOMAIN cabinMap

\* cabinShape: one of the literal labels
cabinShape(x) == IsStr(x) /\ x.v \in cabins

\* dateShape: an object whose isDate is the literal true
dateShape(x) == x.t = "object" /\ x.isDate = TRUE

\* rruleShape with freq any string
rruleShape_anyFreq(x) == x.t = "object" /\ dateShape(x.until)

\* the rrule member of shape: freq the literal 'DAILY', until a dateShape
rruleShape(x) == x.t = "object" /\ x.freq = "DAILY" /\ dateShape(x.until)

\* The fields of obj that shape rejects before any transform runs.
shapeIssues(obj) ==
  {f \in {"uid", "summary", "dtstart", "dtend", "categories", "description", "rrule"} :
     CASE f = "uid" -> ~IsStr(obj.uid)
       [] f = "summary" -> ~IsStr(obj.summary)
       [] f = "dtstart" -> ~dateShape(obj.dtstart)
       [] f = "dtend" -> obj.dtend # Undefined /\ ~dateShape(obj.dtend)
       [] f = "categories" -> obj.categories # Undefined /\ ~cabinShape(obj.categories)
       [] f = "description" -> obj.description # Undefined /\ ~IsStr(obj.description)
       [] f = "rrule" -> obj.rrule # Undefined /\ ~rruleShape(obj.rrule)}

\* shape applied to obj: the issues, whether the uid transform threw, and
\* the transformed record when neither happened
shapeParse(obj) ==
  LET issues == shapeIssues(obj)
      id == IF IsStr(obj.uid) THEN extractCalciumId(obj.uid.v)
            ELSE [threw |-> FALSE, value |-> <<>>]
  IN  [issues |-> issues,
       threw |-> id.threw,
       data |-> IF issues # {} \/ id.threw THEN Undefined
                ELSE [t |-> "object",
                      uid |-> id.value,
                      summary |-> fixApostrophe(obj.summary),
                      dtstart |-> obj.dtstart,
                      dtend |-> obj.dtend,
                      categories |-> obj.categories,
                      description |-> fixApostrophe(obj.description),
                      rrule |-> obj.rrule]]

\* validate(obj, shape), of ./validate: never throws; a failure, a throwing
\* transform included, comes back as the error naming the failing fields
validate(obj) ==
  LET r == shapeParse(obj)
  IN  IF r.issues # {} \/ r.threw
      THEN [data |-> Undefined,
            error |-> [t |-> "error",
                       fields |-> r.issues \cup (IF r.threw THEN {"uid"} ELSE {})]]
      ELSE [data |-> r.data, error |-> Undefined]

----------------------------------------------------------------------------
\* The per-component steps of ImportICS

\* the try block: every property but exdate, first value each
extractObj(c) ==
  [uid |-> c.uid, summary |-> c.summary, dtstart |-> c.dtstart, dtend |-> c.dtend,
   categories |-> c.categories, description |-> c.description, rrule |-> c.rrule]

\* [parseDate(dtstart), parseDate(rrule?.until ?? dtstart)]
rangeOf(data) ==
  <<parseDate(data.dtstart),
    parseDate(IF data.rrule # Undefined THEN data.rrule.until ELSE data.dtstart)>>

\* swapDates without the swap
swapDates_kept(dates) == dates

\* swap if dates are in incorrect order
swapDates(dates) ==
  IF isBefore(dates[2], dates[1]) THEN <<dates[2], dates[1]>> ELSE dates

\* pastCutoff that also drops a range ending on the cutoff
pastCutoff_inclusive(cutoff, dates) ==
  /\ IsStr(cutoff)
  /\ Len(cutoff.v) # 0
  /\ ~isBefore(dates[2], dayjsOfString(cutoff.v))

\* dateCutoff?.length && dates[1].isAfter(dateCutoff)
pastCutoff(cutoff, dates) ==
  /\ IsStr(cutoff)
  /\ Len(cutoff.v) # 0
  /\ isAfter(dates[2], dayjsOfString(cutoff.v))

\* cabinOf without the ?? null
cabinOf_plain(categories) ==
  IF categories = Undefined THEN Undefined ELSE cabinMap[categories.v]

\* (data.categories && cabinMap[data.categories]) ?? null
cabinOf(categories) ==
  LET v == IF categories = Undefined THEN Undefined ELSE cabinMap[categories.v]
  IN  IF v \in {Undefined, Null} THEN Null ELSE v

\* the event object
eventOf(data, dates) ==
  [t |-> "object",
   importId |-> data.uid,
   title |-> data.summary,
   description |-> data.description,
   cabin |-> cabinOf(data.categories),
   dates |-> [start |-> formatDate(dates[1]), end |-> formatDate(dates[2])]]

\* What the map callback returns for a validated record.
resolveEvent(data, cutoff) ==
  LET dates == swapDates(rangeOf(data))
  IN  IF pastCutoff(cutoff, dates) THEN Undefined ELSE eventOf(data, dates)

----------------------------------------------------------------------------
\* uploadData's transport records

\* dateTS of a Dayjs: utc(true).startOf('date').unix(), midnight UTC of the date
dateTS(d) == d * 86400

stringToTS(d) == dateTS(dayjsOfString(d))

\* reservationOf that marks every reservation as a custom event
reservationOf_marked(event) ==
  [name |-> event.title,
   roomId |-> IF event.cabin \in {Null, Undefined} THEN Undefined ELSE event.cabin,
   customText |-> Str("Custom Event")]

\* the one reservation of a transport record
reservationOf(event) ==
  [name |-> event.title,
   roomId |-> IF event.cabin \in {Null, Undefined} THEN Undefined ELSE event.cabin,
   customText |-> IF event.cabin \in {Null, Undefined} \/ Len(event.cabin.v) = 0
                  THEN Str("Custom Event") ELSE Undefined]

finalEventOf(event) ==
  [title |-> event.title,
   description |-> IF event.description \in {Null, Undefined} THEN Str("") ELSE event.description,
   authorId |-> "3ede5331-ab2d-46b6-89b4-dd68d0d4e2a0",
   dateStart |-> stringToTS(event.dates.start),
   dateEnd |-> stringToTS(event.dates.end),
   reservations |-> <<reservationOf(event)>>,
   importId |-> event.importId]

----------------------------------------------------------------------------
\* Inputs: the property values a vevent of the feed can carry

Time(y, m, d) == [t |-> "object", isDate |-> TRUE, year |-> y, month |-> m, day |-> d]
DateTime(y, m, d) == [t |-> "object", isDate |-> FALSE, year |-> y, month |-> m, day |-> d]
Recur(freq, until) == [t |-> "object", freq |-> freq, until |-> until]

UidGood == Str(<<"1", "2", "3", "4", "5", "6", "7", "8", "9", "0", "-", "a", "b", "c", "1", "2", "3", "-", "9", "9", "9", "9", "9", "9", "@", "a", "f", "o", "s", "t", "e", "r", "r", "i", ".", "o", "r", "g">>)
UidOther == Str(<<"1", "7", "5", "4", "9", "3", "1", "7", "7", "5", "-", "x", "_", "9", "-", "5", "1", "5", "5", "7", "0", "@", "a", "f", "o", "s", "t", "e", "r", "r", "i", ".", "o", "r", "g">>)
UidWrongDomain == Str(<<"1", "2", "3", "4", "5", "6", "7", "8", "9", "0", "-", "a", "b", "c", "1", "2", "3", "-", "9", "9", "9", "9", "9", "9", "@", "e", "x", "a", "m", "p", "l", "e", ".", "c", "o", "m">>)
UidNoDot == Str(<<"1", "2", "3", "4", "5", "6", "7", "8", "9", "0", "-", "a", "b", "c", "1", "2", "3", "-", "9", "9", "9", "9", "9", "9", "@", "a", "f", "o", "s", "t", "e", "r", "r", "i", "X", "o", "r", "g">>)
UidShortPrefix == Str(<<"1", "2", "3", "4", "5", "6", "7", "8", "9", "-", "a", "b", "c", "1", "2", "3", "-", "9", "9", "9", "9", "9", "9", "@", "a", "f", "o", "s", "t", "e", "r", "r", "i", ".", "o", "r", "g">>)

Jan10 == Time(2024, 1, 10)
Jan15 == Time(2024, 1, 15)
Feb30 == Time(2024, 2, 30)
Dec31 == Time(2023, 12, 31)
Month13 == Time(2023, 13, 0)

TeamMeeting == Str(<<"T", "e", "a", "m", " ", "M", "e", "e", "t", "i", "n", "g">>)
Garbled == Str(<<"B", "o", "b", ReplacementChar, "s">>)

\* a vevent whose properties all read; raises says a property access throws
Vevent(uid, summary, dtstart, rrule, categories) ==
  [raises |-> FALSE, uid |-> uid, summary |-> summary, description |-> Undefined,
   dtstart |-> dtstart, dtend |-> Undefined, categories |-> categories,
   rrule |-> rrule, exdate |-> Undefined]

Components ==
  { [Vevent(UidGood, TeamMeeting, Jan15, Undefined, Undefined) EXCEPT !.raises = TRUE],
    Vevent(UidGood, TeamMeeting, Jan15, Undefined, Undefined),
    Vevent(UidGood, TeamMeeting, Jan15, Recur("DAILY", Jan10), Str("House")),
    Vevent(UidOther, TeamMeeting, Jan10, Recur("DAILY", Feb30), Str("Foster")),
    Vevent(UidOther, Str(<<>>), Feb30, Recur("DAILY", Jan10), Str("Meeting")),
    [Vevent(UidOther, Garbled, Dec31, Recur("DAILY", Month13), Str("Ide"))
       EXCEPT !.description = Garbled, !.dtend = Jan10, !.exdate = Jan10],
    Vevent(UidGood, TeamMeeting, Dec31, Recur("DAILY", Jan15), Str("Mosher")),
    Vevent(UidWrongDomain, TeamMeeting, Jan15, Undefined, Undefined),
    Vevent(UidNoDot, TeamMeeting, Jan10, Undefined, Str("Kendrew")),
    Vevent(UidShortPrefix, TeamMeeting, Jan15, Undefined, Undefined),
    Vevent(Undefined, Undefined, DateTime(2024, 1, 15), Undefined, Str("Barn")),
    Vevent(UidGood, TeamMeeting, Jan10, Recur("WEEKLY", Jan15), Undefined),
    Vevent(UidGood, TeamMeeting, Jan10, Recur("DAILY", DateTime(2024, 1, 15)), Undefined) }

\* the dateCutoff argument: omitted, empty, or a date
Cutoffs == {Undefined, Str(<<>>), Str(<<"2", "0", "2", "4", "-", "0", "1", "-", "1", "5">>)}

----------------------------------------------------------------------------
\* The run: uploadData(newDownload, dateCutoff); newDownload is read once,
\* by the step that acts on it

VARIABLES
  dateCutoff,    \* the argument dateCutoff
  file,          \* assets/CalciumEvents.ics: "missing", "empty" or "data"
  pc,            \* where the run stands; "return356" and "return361" are
                 \* the two early returns of ImportICS
  count,         \* events.length, once the feed is parsed
  events,        \* the components the map callback has been called with
  mapped,        \* what the callback returned for each of them
  broken,        \* the array broken
  unparsed,      \* the array unparsed
  parsed,        \* the filtered array ImportICS returns
  exportWritten, \* whether assets/IMPORT.json has been written
  finalEvents,   \* uploadData's transport records
  createCalls    \* how many times the create mutation was posted

vars == <<dateCutoff, file, pc, count, events, mapped, broken,
          unparsed, parsed, exportWritten, finalEvents, createCalls>>

Init ==
  /\ dateCutoff \in Cutoffs
  /\ file \in {"missing", "empty", "data"}
  /\ pc = "fetch"
  /\ count = 0
  /\ events = <<>>
  /\ mapped = <<>>
  /\ broken = <<>>
  /\ unparsed = <<>>
  /\ parsed = <<>>
  /\ exportWritten = FALSE
  /\ finalEvents = <<>>
  /\ createCalls = 0

\* newDownload is false: straight to the read
SkipFetch ==
  /\ pc = "fetch"
  /\ pc' = "read"
  /\ UNCHANGED <<dateCutoff, file, count, events, mapped, broken,
                 unparsed, parsed, exportWritten, finalEvents, createCalls>>

\* newDownload is true; the fetch rejects (caught, logged) or answers an
\* empty body: if (!datadown) return
FetchNothing ==
  /\ pc = "fetch"
  /\ pc' = "return356"
  /\ UNCHANGED <<dateCutoff, file, count, events, mapped, broken,
                 unparsed, parsed, exportWritten, finalEvents, createCalls>>

\* newDownload is true; the fetch answers text, which is written to the
\* feed file; a failing writeFile is not caught and rejects the run
FetchWrite ==
  /\ pc = "fetch"
  /\ \/ file' = "data" /\ pc' = "read"
     \/ file' = file /\ pc' = "threw"
  /\ UNCHANGED <<dateCutoff, count, events, mapped, broken,
                 unparsed, parsed, exportWritten, finalEvents, createCalls>>

\* ReadFile without the if (!data) return
ReadFile_unchecked ==
  /\ pc = "read"
  /\ pc' = "parse"
  /\ UNCHANGED <<dateCutoff, file, count, events, mapped, broken,
                 unparsed, parsed, exportWritten, finalEvents, createCalls>>

\* readFile(filepath).catch(() => {}) and if (!data) return
ReadFile ==
  /\ pc = "read"
  /\ pc' = IF file = "data" THEN "parse" ELSE "return361"
  /\ UNCHANGED <<dateCutoff, file, count, events, mapped, broken,
                 unparsed, parsed, exportWritten, finalEvents, createCalls>>

\* ical.parse and getAllSubcomponents('vevent'); ical.parse throws on text
\* that is no calendar
ParseFeed ==
  /\ pc = "parse"
  /\ \/ \E n \in 0..MaxEvents : count' = n /\ pc' = "map"
     \/ count' = count /\ pc' = "threw"
  /\ UNCHANGED <<dateCutoff, file, events, mapped, broken,
                 unparsed, parsed, exportWritten, finalEvents, createCalls>>

\* mapCallback without the try/catch around the property reads
mapCallback_uncaught(c, i, cutoff) ==
  LET obj == extractObj(c)
      r == validate(obj)
  IN  IF c.raises
      THEN [threw |-> TRUE, ret |-> Undefined, broken |-> <<>>, unparsed |-> <<>>]
      ELSE IF r.error # Undefined \/ r.data = Undefined
      THEN [threw |-> FALSE, ret |-> Undefined,
            broken |-> <<>>,
            unparsed |-> <<[number |-> i, object |-> obj, error |-> r.error]>>]
      ELSE [threw |-> FALSE, ret |-> resolveEvent(r.data, cutoff),
            broken |-> <<>>, unparsed |-> <<>>]

\* mapCallback whose catch block lacks the return, so that the record read
\* so far goes on to validation
mapCallback_fallThrough(c, i, cutoff) ==
  LET obj == extractObj(c)
      r == validate(obj)
      b == IF c.raises THEN <<[number |-> i, object |-> c, error |-> "raised"]>> ELSE <<>>
  IN  IF r.error # Undefined \/ r.data = Undefined
      THEN [threw |-> FALSE, ret |-> Undefined,
            broken |-> b,
            unparsed |-> <<[number |-> i, object |-> obj, error |-> r.error]>>]
      ELSE [threw |-> FALSE, ret |-> resolveEvent(r.data, cutoff),
            broken |-> b, unparsed |-> <<>>]

\* The map callback on component c with index i: what it returns, what it
\* pushes on broken and on unparsed, and whether an exception leaves it.
mapCallback(c, i, cutoff) ==
  LET obj == extractObj(c)
      r == validate(obj)
  IN  IF c.raises
      THEN [threw |-> FALSE, ret |-> Undefined,
            broken |-> <<[number |-> i, object |-> c, error |-> "raised"]>>,
            unparsed |-> <<>>]
      ELSE IF r.error # Undefined \/ r.data = Undefined
      THEN [threw |-> FALSE, ret |-> Undefined,
            broken |-> <<>>,
            unparsed |-> <<[number |-> i, object |-> obj, error |-> r.error]>>]
      ELSE [threw |-> FALSE, ret |-> resolveEvent(r.data, cutoff),
            broken |-> <<>>, unparsed |-> <<>>]

\* events.map reaches the next component, c.
MapComponent(c) ==
  LET r == mapCallback(c, Len(events), dateCutoff)
  IN  /\ pc = "map"
      /\ Len(events) < count
      /\ events' = Append(events, c)
      /\ broken' = broken \o r.broken
      /\ unparsed' = unparsed \o r.unparsed
      /\ IF r.threw
         THEN pc' = "threw" /\ UNCHANGED mapped
         ELSE pc' = pc /\ mapped' = Append(mapped, r.ret)
      /\ UNCHANGED <<dateCutoff, file, count, parsed,
                     exportWritten, finalEvents, createCalls>>

RECURSIVE Reversed(_)
Reversed(arr) == IF arr = <<>> THEN <<>> ELSE Append(Reversed(Tail(arr)), Head(arr))

\* filterTruthy over the array in reverse
filterTruthy_reversed(arr) == SelectSeq(Reversed(arr), LAMBDA it : it # Undefined)

\* .filter((it) => !!it)
filterTruthy(arr) == SelectSeq(arr, LAMBDA it : it # Undefined)

\* the filter, the writeFile of IMPORT.json, and the return
FinishImport ==
  /\ pc = "map"
  /\ Len(events) = count
  /\ parsed' = filterTruthy(mapped)
  /\ exportWritten' = TRUE
  /\ pc' = "returned"
  /\ UNCHANGED <<dateCutoff, file, count, events, mapped, broken,
                 unparsed, finalEvents, createCalls>>

\* uploadData: if (!parsed) return
UploadNothing ==
  /\ pc \in {"return356", "return361"}
  /\ pc' = "done"
  /\ UNCHANGED <<dateCutoff, file, count, events, mapped, broken,
                 unparsed, parsed, exportWritten, finalEvents, createCalls>>

\* uploadData past if (!parsed) return: parsed.map to the transport records
\* and the fetch of the create mutation, whose rejection is caught and logged
Upload ==
  /\ pc = "returned"
  /\ finalEvents' = [k \in 1..Len(parsed) |-> finalEventOf(parsed[k])]
  /\ createCalls' = createCalls + 1
  /\ pc' = "done"
  /\ UNCHANGED <<dateCutoff, file, count, events, mapped, broken,
                 unparsed, parsed, exportWritten>>

Next ==
  \/ SkipFetch
  \/ FetchNothing
  \/ FetchWrite
  \/ ReadFile
  \/ ParseFeed
  \/ \E c \in Components : MapComponent(c)
  \/ FinishImport
  \/ UploadNothing
  \/ Upload

Spec == Init /\ [][Next]_vars

----------------------------------------------------------------------------
\* Vocabulary of the properties

\* ordinal indices (0-based) of the components visited so far
Visited == 0..(Len(events) - 1)
Component(i) == events[i + 1]
Returned(i) == mapped[i + 1]

\* the accepted records, and the indices they come from
Accepted == {i \in Visited : Returned(i) # Undefined}
Numbers(bucket) == {bucket[k].number : k \in 1..Len(bucket)}

\* per component: its properties all read and its flat record passes the schema
SchemaOk ==
  [c \in Components |-> ~c.raises /\ validate(extractObj(c)).error = Undefined]
Validated(i) == SchemaOk[Component(i)]

\* per component that passes the schema: the end date of its resolved range
ResolvedEnd ==
  [c \in {x \in Components : SchemaOk[x]} |->
     formatDate(swapDates(rangeOf(validate(extractObj(c)).data))[2])]

\* a cutoff is supplied
CutoffGiven == IsStr(dateCutoff) /\ Len(dateCutoff.v) # 0

\* a <= b for two YYYY-MM-DD strings, read as calendar dates
DateStrLeq(a, b) ==
  \/ a = b
  \/ \E k \in 1..Len(a) :
       /\ SubSeq(a, 1, k - 1) = SubSeq(b, 1, k - 1)
       /\ a[k] # b[k]
       /\ DigitVal(a[k]) < DigitVal(b[k])

\* the day a pure date names, month and day within the calendar
DayOf(date) == DaysFromCivil(date.year, date.month, date.day)

\* the pass over the components is over
PassDone == pc \in {"returned", "done"} /\ exportWritten

Increasing(bucket) ==
  \A k \in 1..Len(bucket), l \in 1..Len(bucket) : k < l => bucket[k].number < bucket[l].number

----------------------------------------------------------------------------
\* dates with the month and the day in and just out of the calendar's range
DateGrid ==
  {Time(y, m, d) : y \in {2023, 2024}, m \in 0..13, d \in {0, 1, 28, 29, 30, 31, 32}}

\* the resolved range of every dtstart and until of the grid is in order
GridRangesOrdered ==
  \A a \in DateGrid, b \in DateGrid :
    LET dates == swapDates(<<parseDate(a), parseDate(b)>>)
    IN  DateStrLeq(formatDate(dates[1]), formatDate(dates[2]))

\* C1: every accepted record has dates.start <= dates.end as calendar
\* dates, also when its rrule.until precedes its dtstart.
C1_StartNotAfterEnd ==
  /\ \A i \in Accepted : DateStrLeq(Returned(i).dates.start, Returned(i).dates.end)
  /\ Accepted # {} => GridRangesOrdered

\* an accepted record whose until precedes its dtstart, boundaries swapped
C1_Witness ==
  \E i \in Accepted :
    /\ Component(i).rrule # Undefined
    /\ DayOf(Component(i).rrule.until) < DayOf(Component(i).dtstart)
    /\ Returned(i).dates.start = formatDate(DayOf(Component(i).rrule.until))
    /\ Returned(i).dates.end = formatDate(DayOf(Component(i).dtstart))

----------------------------------------------------------------------------
\* the id pattern <10 digits>-<token>-<6 digits>@afosterri.org of the claim
MatchesIdPattern(uid) ==
  IsStr(uid) /\ DotPosition(uid.v) > 0 /\ uid.v[DotPosition(uid.v)] = "."

\* C2: a record whose uid does not match the id pattern fails validation:
\* it is in unparsed, never in accepted, and the pass goes on.
C2_BadUidUnparsed ==
  \A i \in Visited :
    ~Component(i).raises /\ ~MatchesIdPattern(Component(i).uid)
      => /\ i \notin Accepted
         /\ i \in Numbers(unparsed)
         /\ pc # "threw"

----------------------------------------------------------------------------
\* C3: with a cutoff D no accepted record ends strictly after D, a record
\* ending on D is kept, a record the cutoff drops is in neither unparsed nor
\* broken, and without a cutoff no validated record is dropped.
C3_Cutoff ==
  /\ CutoffGiven =>
       \A i \in Accepted : DateStrLeq(Returned(i).dates.end, dateCutoff.v)
  /\ CutoffGiven =>
       \A i \in Visited :
         Validated(i) /\ ResolvedEnd[Component(i)] = dateCutoff.v => i \in Accepted
  /\ \A i \in Visited :
       Validated(i) /\ i \notin Accepted
         => CutoffGiven /\ i \notin Numbers(unparsed) /\ i \notin Numbers(broken)
  /\ ~CutoffGiven => \A i \in Visited : Validated(i) => i \in Accepted

\* under a cutoff, one record ending on the cutoff is kept and one is dropped
C3_Witness ==
  /\ CutoffGiven
  /\ \E i \in Accepted : Returned(i).dates.end = dateCutoff.v
  /\ \E i \in Visited : Validated(i) /\ i \notin Accepted

----------------------------------------------------------------------------
\* the five labels that name a location
LocationLabels == cabins \ {"Meeting"}

----------------------------------------------------------------------------
----------------------------------------------------------------------------
\* the value is no pure date
NotPureDate(x) == x.t # "object" \/ x.isDate # TRUE

\* C6: a record with a recurrence whose frequency is not DAILY, or whose
\* until is no pure date, fails validation: it is in unparsed, never in
\* accepted, and no event (so no date range) is made for it.
C6_BadRecurrence ==
  \A i \in Visited :
    LET c == Component(i)
    IN  ~c.raises /\ c.rrule # Undefined
        /\ (c.rrule.freq # "DAILY" \/ NotPureDate(c.rrule.until))
          => /\ Returned(i) = Undefined
             /\ i \in Numbers(unparsed)
             /\ i \notin Numbers(broken)

\* a WEEKLY recurrence and a date-time until, both visited
C6_Witness ==
  /\ \E i \in Visited : ~Component(i).raises /\ Component(i).rrule # Undefined
                        /\ Component(i).rrule.freq = "WEEKLY"
  /\ \E i \in Visited : ~Component(i).raises /\ Component(i).rrule # Undefined
                        /\ Component(i).rrule.freq = "DAILY"
                        /\ NotPureDate(Component(i).rrule.until)

----------------------------------------------------------------------------
\* how many accepted components have an index of at most i
Rank(i) == Cardinality({j \in Accepted : j <= i})

\* C7: accepted keeps the source order: the record of the surviving
\* component with the lower index comes first, whatever lay in between.
C7_SourceOrder ==
  PassDone =>
    /\ Len(parsed) = Cardinality(Accepted)
    /\ \A i \in Accepted : parsed[Rank(i)] = Returned(i)

\* two different accepted records, with a component between them that was
\* not accepted
C7_Witness ==
  /\ PassDone
  /\ \E i \in Accepted, j \in Accepted :
       /\ i + 1 < j
       /\ Returned(i) # Returned(j)
       /\ \E m \in Visited : i < m /\ m < j /\ m \notin Accepted

----------------------------------------------------------------------------
NoLocation(cabin) == cabin = Null \/ cabin = Undefined

\* C8: each accepted record maps to one transport record with one
\* reservation, which carries customText "Custom Event" and no roomId when
\* the record has no location id, and roomId equal to the location id and no
\* customText otherwise.
C8_Reservation ==
  createCalls > 0 =>
    /\ Len(finalEvents) = Len(parsed)
    /\ \A k \in 1..Len(parsed) :
         /\ finalEvents[k].importId = parsed[k].importId
         /\ Len(finalEvents[k].reservations) = 1
         /\ LET r == finalEvents[k].reservations[1]
            IN  IF NoLocation(parsed[k].cabin)
                THEN r.customText = Str("Custom Event") /\ r.roomId = Undefined
                ELSE r.roomId = parsed[k].cabin /\ r.customText = Undefined

\* posted: one record with a room and one marked as a custom event
C8_Witness ==
  /\ createCalls > 0
  /\ \E k \in 1..Len(finalEvents) : finalEvents[k].reservations[1].roomId # Undefined
  /\ \E k \in 1..Len(finalEvents) : finalEvents[k].reservations[1].customText # Undefined

----------------------------------------------------------------------------
\* the fetch or the read gave nothing: ImportICS has returned early
NoFeed == pc \in {"return356", "return361"} \/ (pc = "done" /\ ~exportWritten)

\* C9: when the fetch or the read fails or gives empty data the run stops
\* before any component: no bucket filled, no export file, no create-call;
\* and the create-call is made at most once, after the finished pass.
C9_Abort ==
  /\ pc \notin {"fetch", "read", "threw"} /\ file # "data" => NoFeed
  /\ NoFeed =>
       /\ count = 0
       /\ events = <<>> /\ mapped = <<>> /\ parsed = <<>>
       /\ broken = <<>> /\ unparsed = <<>>
       /\ ~exportWritten
       /\ createCalls = 0
  /\ createCalls <= 1
  /\ createCalls = 1 => PassDone /\ Len(events) = count

\* uploadData has returned after an empty read, having posted nothing
C9_Witness == pc = "done" /\ file = "empty" /\ createCalls = 0

----------------------------------------------------------------------------
\* per component that passes the schema: the later of dtstart and until
LastDate ==
  [c \in {x \in Components : SchemaOk[x]} |->
     LET first == parseDate(c.dtstart)
         until == IF c.rrule = Undefined THEN first ELSE parseDate(c.rrule.until)
     IN  formatDate(IF until >= first THEN until ELSE first)]

\* the components whose validated range ends after the cutoff
Dropped ==
  {i \in Visited :
     Validated(i) /\ CutoffGiven /\ ~DateStrLeq(LastDate[Component(i)], dateCutoff.v)}

BoolNum(b) == IF b THEN 1 ELSE 0

\* C10: after a pass over n components each has exactly one outcome among
\* accepted, broken, unparsed and dropped, so the four counts add up to n;
\* the indices in broken and in unparsed are disjoint and increasing; and
\* without a cutoff the first three counts add up to n.
C10_Partition ==
  PassDone =>
    LET dropped == Dropped
        inBroken == Numbers(broken)
        inUnparsed == Numbers(unparsed)
        accepted == Accepted
    IN  /\ \A i \in 0..(count - 1) :
             BoolNum(i \in accepted) + BoolNum(i \in inBroken)
               + BoolNum(i \in inUnparsed) + BoolNum(i \in dropped) = 1
        /\ Len(parsed) + Len(broken) + Len(unparsed) + Cardinality(dropped) = count
        /\ inBroken \cap inUnparsed = {}
        /\ Increasing(broken)
        /\ Increasing(unparsed)
        /\ ~CutoffGiven => Len(parsed) + Len(broken) + Len(unparsed) = count

\* a finished pass under a cutoff with an accepted, a broken or unparsed,
\* and a dropped component
C10_Witness ==
  /\ PassDone
  /\ Len(parsed) > 0
  /\ Len(broken) + Len(unparsed) > 0
  /\ Dropped # {}

=============================================================================
